---- MODULE Spec2Model ----
(***************************************************************************)
(* The energy detector of utility/EnergyDetector.cpp as a state machine,   *)
(* and the Arithmetic block of math/Arithmetic.cpp in a feedback topology. *)
(*                                                                         *)
(* RealType values (envelopes, gains, factors) are kept exactly as         *)
(* integers over fixed denominators: a gain is a numerator over GainDen,   *)
(* a threshold factor a numerator over FactorDen, an envelope a numerator  *)
(* over Scale = GainDen^MaxEvals.  With dyadic gains and small integer     *)
(* magnitudes every product and sum of the single-pole filter is exactly   *)
(* representable in float and double, so the integer arithmetic below is   *)
(* the arithmetic the block performs.                                      *)
(***************************************************************************)
EXTENDS Integers, Sequences, FiniteSets, TLC

VARIABLES
    \* configuration params and the values the setters derive from them
    forwardMode, dropInactiveSamples,
    activationLeveldB, activationFactor,
    activationMinimum, activationMaximum,
    deactivationLeveldB, deactivationFactor,
    deactivationMinimum, deactivationMaximum,
    signalAverage, signalGain, oneMinusSignalGain,
    noiseAverage, noiseGain, oneMinusNoiseGain,
    lookahead, activationId, deactivationId,
    \* current processing state
    activeState, samplesInState, currentSignalEnvelope, currentNoiseEnvelope,
    \* the ports: input 0 and output 0
    stream,     \* every element the host has put on input 0, oldest first
    rd,         \* how many of them the host has popped after consume()
    totalConsumed, \* the sum of the counts passed to consume()
    reserve,    \* the reserve requested with setReserve()
    output,     \* every element forwarded with postBuffer(), oldest first
    labels,     \* every label posted, with its absolute output position
    evals,      \* decision samples evaluated so far
    refusals,   \* consume() calls the host has refused so far
    cycle,      \* what the last work() (or activate()) call saw and did
    \* the feedback topology of math/TestArithmeticBlocks.cpp: feeder and
    \* collector around an Arithmetic block whose output feeds its input 1
    feederBuffer,   \* the elements the feeder was loaded with (feedBuffer)
    fed,            \* how many of them the feeder has sent to input 0
    preload,        \* Arithmetic::_preload, one count per input, from 0
    numInlineBuffers, \* Arithmetic::_numInlineBuffers
    in0,            \* the elements input 0 of the block holds
    in1,            \* the elements input 1 of the block holds
    toInput1,       \* produced elements on their way to input 1
    toCollector,    \* produced elements on their way to the collector
    collector       \* the elements the collector has received (getBuffer)

config == <<forwardMode, dropInactiveSamples, activationLeveldB, activationFactor,
            activationMinimum, activationMaximum, deactivationLeveldB,
            deactivationFactor, deactivationMinimum, deactivationMaximum,
            signalAverage, signalGain, oneMinusSignalGain, noiseAverage,
            noiseGain, oneMinusNoiseGain, lookahead, activationId, deactivationId>>

runtime == <<activeState, samplesInState, currentSignalEnvelope, currentNoiseEnvelope>>

ports == <<stream, rd, totalConsumed, reserve, output, labels>>

arithmetic == <<feederBuffer, fed, preload, numInlineBuffers, in0, in1,
                toInput1, toCollector, collector>>

detector == <<config, runtime, ports, evals, refusals, cycle>>

vars == <<detector, arithmetic>>

----------------------------------------------------------------------------
\* Bounds of the model

\* elements the host delivers on input 0 in one run
MaxStream == 5
\* largest outPort->elements() the host offers a work() call
MaxOut == 2
\* decision samples evaluated in one run (the envelopes stay exact up to it)
MaxEvals == 6
\* consume() calls the host refuses in one run
MaxRefusals == 1
\* largest lookahead configured
MaxLookahead == 1
\* the non-zero dwell minimum and maximum configured
MinDwell == 1
MaxDwell == 2

----------------------------------------------------------------------------
\* RealType arithmetic

\* denominator of the gains: signalGain/GainDen is the value of _signalGain
GainDen == 4
\* denominator of the factors: activationFactor/FactorDen is _activationFactor
FactorDen == 2

RECURSIVE Power(_, _)
Power(b, n) == IF n = 0 THEN 1 ELSE b * Power(b, n - 1)

\* denominator of the envelopes
Scale == Power(GainDen, MaxEvals)

\* the sample itself, without std::abs
SignedValue(x) == x

\* std::abs of a real sample
Abs(x) == IF x < 0 THEN -x ELSE x

Min(a, b) == IF a < b THEN a ELSE b

\* element values of the stream
Samples == {0, -2}
\* stands for the unspecified value of an element read past the end of the
\* input buffer; no stream element has it
Garbage == 7

\* RealType(std::pow(10.0, level/20)) for the levels used, level in 1/100 dB
Pow10Level(level) ==
    CASE level = 0 -> FactorDen             \*  0.00 dB -> 1.0
      [] level = 352 -> (3 * FactorDen) \div 2  \*  3.52 dB -> 1.5
      [] level = 602 -> 2 * FactorDen       \*  6.02 dB -> 2.0

\* RealType(std::exp(-1/avg)) for the averages used, avg in 1/1000 sample
ExpGain(avg) ==
    CASE avg = 721 -> GainDen \div 4          \* exp(-1/0.721) = 0.25
      [] avg = 1443 -> GainDen \div 2         \* exp(-1/1.443) = 0.5
      [] avg = 3476 -> (3 * GainDen) \div 4   \* exp(-1/3.476) = 0.75

\* gain*envelope + oneMinusGain*xn
Average(gain, oneMinusGain, envelope, xn) ==
    (gain * envelope + oneMinusGain * xn * Scale) \div GainDen

\* a >= b*factor: the comparison made non-strict
AboveOrEqual(a, b, factor) == a * FactorDen >= b * factor

\* a <= b*factor: the comparison made non-strict
BelowOrEqual(a, b, factor) == a * FactorDen <= b * factor

\* a > b*factor and a < b*factor on RealType
Above(a, b, factor) == a * FactorDen > b * factor
Below(a, b, factor) == a * FactorDen < b * factor

----------------------------------------------------------------------------
\* work(): the two loops

\* the deactivation test with the maximum enforced even when it is 0
DeactivateConditionZeroMaximum(sis, sig, noise) ==
    \/ (sis > activationMinimum /\ Below(sig, noise, deactivationFactor))
    \/ sis > activationMaximum

\* the deactivation test without the sample minimum
DeactivateConditionNoMinimum(sis, sig, noise) ==
    \/ Below(sig, noise, deactivationFactor)
    \/ (activationMaximum # 0 /\ sis > activationMaximum)

\* the deactivation test of the active loop
DeactivateCondition(sis, sig, noise) ==
    \/ (sis > activationMinimum /\ Below(sig, noise, deactivationFactor))
    \/ (activationMaximum # 0 /\ sis > activationMaximum)

\* the activation test with the minimum met one sample early
ActivateConditionAtMinimum(sis, sig, noise) ==
    \/ (sis >= deactivationMinimum /\ Above(sig, noise, activationFactor))
    \/ (deactivationMaximum # 0 /\ sis > deactivationMaximum)

\* the activation test with the maximum reached one sample early
ActivateConditionAtMaximum(sis, sig, noise) ==
    \/ (sis > deactivationMinimum /\ Above(sig, noise, activationFactor))
    \/ (deactivationMaximum # 0 /\ sis >= deactivationMaximum)

\* the activation test of the inactive loop
ActivateCondition(sis, sig, noise) ==
    \/ (sis > deactivationMinimum /\ Above(sig, noise, activationFactor))
    \/ (deactivationMaximum # 0 /\ sis > deactivationMaximum)

\* the decision sample read without the lookahead offset: in[i]
DecisionSampleNoLookahead(in, i) == in[i + 1]

\* the decision sample of position i: in[i+_lookahead], in is 1-based here
DecisionSample(in, i) == in[i + lookahead + 1]

\* the loop entry with the sample counter started again at every call
LoopEntryCounterCleared ==
    [i |-> 0, activeState |-> activeState, samplesInState |-> 0,
     sig |-> currentSignalEnvelope, noise |-> currentNoiseEnvelope,
     broke |-> FALSE, posted |-> <<>>, trace |-> <<>>]

\* the locals and fields the loops change; trace lists, per evaluated decision
\* sample, the values the test of that iteration read
LoopEntry == [i |-> 0, activeState |-> activeState,
              samplesInState |-> samplesInState,
              sig |-> currentSignalEnvelope, noise |-> currentNoiseEnvelope,
              broke |-> FALSE, posted |-> <<>>, trace |-> <<>>]

\* the active loop with the noise envelope updated along with the signal
\* envelope, as the inactive loop does
RECURSIVE ActiveLoopUpdatingNoise(_, _, _)
ActiveLoopUpdatingNoise(in, N, r) ==
    IF r.i >= N THEN r
    ELSE LET sis   == r.samplesInState + 1
             xn    == Abs(DecisionSample(in, r.i))
             sig   == Average(signalGain, oneMinusSignalGain, r.sig, xn)
             noise == Average(noiseGain, oneMinusNoiseGain, r.noise, xn)
             ev    == [i |-> r.i, sis |-> sis, sig |-> sig, noise |-> noise]
         IN  IF DeactivateCondition(sis, sig, noise)
             THEN [r EXCEPT !.samplesInState = 0,
                            !.sig = sig,
                            !.noise = noise,
                            !.activeState = ~r.activeState,
                            !.broke = TRUE,
                            !.posted = IF deactivationId # ""
                                       THEN Append(@, [id |-> deactivationId, index |-> r.i])
                                       ELSE @,
                            !.trace = Append(@, ev)]
             ELSE ActiveLoopUpdatingNoise(in, N, [r EXCEPT !.i = r.i + 1,
                                                           !.samplesInState = sis,
                                                           !.sig = sig,
                                                           !.noise = noise,
                                                           !.trace = Append(@, ev)])

\* the active loop with the deactivation label posted at index 0 of the
\* buffer instead of index i
RECURSIVE ActiveLoopLabelAtHead(_, _, _)
ActiveLoopLabelAtHead(in, N, r) ==
    IF r.i >= N THEN r
    ELSE LET sis == r.samplesInState + 1
             xn  == Abs(DecisionSample(in, r.i))
             sig == Average(signalGain, oneMinusSignalGain, r.sig, xn)
             ev  == [i |-> r.i, sis |-> sis, sig |-> sig, noise |-> r.noise]
         IN  IF DeactivateCondition(sis, sig, r.noise)
             THEN [r EXCEPT !.samplesInState = 0,
                            !.sig = sig,
                            !.activeState = ~r.activeState,
                            !.broke = TRUE,
                            !.posted = IF deactivationId # ""
                                       THEN Append(@, [id |-> deactivationId, index |-> 0])
                                       ELSE @,
                            !.trace = Append(@, ev)]
             ELSE ActiveLoopLabelAtHead(in, N, [r EXCEPT !.i = r.i + 1,
                                                         !.samplesInState = sis,
                                                         !.sig = sig,
                                                         !.trace = Append(@, ev)])

\* for (i = 0; i < N; i++) of the active branch, from loop state r
RECURSIVE ActiveLoop(_, _, _)
ActiveLoop(in, N, r) ==
    IF r.i >= N THEN r
    ELSE LET sis == r.samplesInState + 1
             xn  == Abs(DecisionSample(in, r.i))
             sig == Average(signalGain, oneMinusSignalGain, r.sig, xn)
             ev  == [i |-> r.i, sis |-> sis, sig |-> sig, noise |-> r.noise]
         IN  IF DeactivateCondition(sis, sig, r.noise)
             THEN [r EXCEPT !.samplesInState = 0,
                            !.sig = sig,
                            !.activeState = ~r.activeState,
                            !.broke = TRUE,
                            !.posted = IF deactivationId # ""
                                       THEN Append(@, [id |-> deactivationId, index |-> r.i])
                                       ELSE @,
                            !.trace = Append(@, ev)]
             ELSE ActiveLoop(in, N, [r EXCEPT !.i = r.i + 1,
                                              !.samplesInState = sis,
                                              !.sig = sig,
                                              !.trace = Append(@, ev)])

\* for (i = 0; i < N; i++) of the inactive branch, from loop state r
RECURSIVE InactiveLoop(_, _, _)
InactiveLoop(in, N, r) ==
    IF r.i >= N THEN r
    ELSE LET sis   == r.samplesInState + 1
             xn    == Abs(DecisionSample(in, r.i))
             sig   == Average(signalGain, oneMinusSignalGain, r.sig, xn)
             noise == Average(noiseGain, oneMinusNoiseGain, r.noise, xn)
             ev    == [i |-> r.i, sis |-> sis, sig |-> sig, noise |-> noise]
         IN  IF ActivateCondition(sis, sig, noise)
             THEN [r EXCEPT !.samplesInState = 0,
                            !.sig = sig,
                            !.noise = noise,
                            !.activeState = ~r.activeState,
                            !.broke = TRUE,
                            !.trace = Append(@, ev)]
             ELSE InactiveLoop(in, N, [r EXCEPT !.i = r.i + 1,
                                                !.samplesInState = sis,
                                                !.sig = sig,
                                                !.noise = noise,
                                                !.trace = Append(@, ev)])

\* the activation label posted by every call that starts in the active state
ActivationLabelEveryCall ==
    IF activationId # ""
    THEN <<[id |-> activationId, index |-> 0]>>
    ELSE <<>>

\* the activation label without the test of the id
ActivationLabelUnguarded ==
    IF samplesInState = 0
    THEN <<[id |-> activationId, index |-> 0]>>
    ELSE <<>>

\* the activation label of the active branch, posted before the loop
ActivationLabel ==
    IF samplesInState = 0 /\ activationId # ""
    THEN <<[id |-> activationId, index |-> 0]>>
    ELSE <<>>

\* the branch on _activeState without the activation label
RunLoopsNoActivationLabel(in, N) ==
    IF activeState
    THEN ActiveLoop(in, N, LoopEntry)
    ELSE InactiveLoop(in, N, LoopEntry)

\* the branch on _activeState with its loop
RunLoops(in, N) ==
    IF activeState
    THEN ActiveLoop(in, N, [LoopEntry EXCEPT !.posted = ActivationLabel])
    ELSE InactiveLoop(in, N, LoopEntry)

\* consume(i): the count without the element of the last iteration
ConsumeCountShort(r) == r.i

\* inPort->consume(...): the count work() passes after the loops
ConsumeCount(r) == r.i + 1

\* buff.length = i*sizeof(Type): a buffer one element short
ForwardCountShort(r) == r.i

\* buff.length = (...)*sizeof(Type): the elements of the forwarded buffer
ForwardCount(r) == r.i + 1

\* the forwarding test on the drop policy alone, without entryState
ForwardsByPolicy(entryState) == ~dropInactiveSamples

\* entryState or not _dropInactiveSamples
Forwards(entryState) == entryState \/ ~dropInactiveSamples

\* const size_t N = std::min(inPort->elements()-_lookahead, outPort->elements())
WorkSize(elements, outElements) == Min(elements - lookahead, outElements)

\* inPort->elements() < _lookahead: the reserve check off by one
StarvedBelow(elements) == elements < lookahead

\* inPort->elements() <= _lookahead
Starved(elements) == elements <= lookahead

----------------------------------------------------------------------------
\* the host's side of the ports

\* what cycle holds before the first work() call
NoCycle == [kind |-> "none", entryState |-> FALSE, elements |-> 0,
            outElements |-> 0, N |-> 0, i |-> 0, broke |-> FALSE,
            consumed |-> 0, popped |-> 0, forwarded |-> <<>>,
            posted |-> <<>>, trace |-> <<>>]

\* the elements the host pops for a consume(consumed) when the port held
\* `elements`: the count asked for, and for a count larger than the port held
\* either everything the port held or nothing (the consume is refused)
HostPop(consumed, elements) ==
    IF consumed <= elements THEN {consumed}
    ELSE {elements} \cup (IF refusals < MaxRefusals THEN {0} ELSE {})

\* inPort->buffer() with its length set to `count` elements; a count larger
\* than the elements the port holds reads one element past the end
Buffer(in, count) ==
    IF count <= Len(in) THEN SubSeq(in, 1, count) ELSE in \o <<Garbage>>

\* the host appends one element to input 0
Deliver(x) ==
    /\ Len(stream) < MaxStream
    /\ stream' = Append(stream, x)
    /\ UNCHANGED <<arithmetic, config, runtime, rd, totalConsumed, reserve, output, labels,
                   evals, refusals, cycle>>

----------------------------------------------------------------------------
\* work(), called by the host with outElements elements free on output 0.
\* The host pops the consumed elements when work() returns; that step is part
\* of the action.  A call that would evaluate more than MaxEvals decision
\* samples in the run is not taken.

Work(outElements) ==
    LET elements == Len(stream) - rd
        in       == SubSeq(stream, rd + 1, Len(stream))
        seen     == [NoCycle EXCEPT !.entryState = activeState,
                                    !.elements = elements]
    IN  IF Starved(elements)
        THEN /\ reserve' = lookahead + 1
             /\ cycle' = [seen EXCEPT !.kind = "starved"]
             /\ UNCHANGED <<arithmetic, config, runtime, stream, rd, totalConsumed, output,
                            labels, evals, refusals>>
        ELSE LET N == WorkSize(elements, outElements)
             IN  IF N = 0
                 THEN /\ cycle' = [seen EXCEPT !.kind = "idle"]
                      /\ UNCHANGED <<arithmetic, config, runtime, ports, evals, refusals>>
                 ELSE /\ evals + N <= MaxEvals
                      /\ LET entryState == activeState
                             r          == RunLoops(in, N)
                             consumed   == ConsumeCount(r)
                             count      == ForwardCount(r)
                             forwards   == Forwards(entryState)
                         IN  \E popped \in HostPop(consumed, elements) :
                               LET buff == IF forwards
                                           THEN Buffer(in, count)
                                           ELSE <<>>
                               IN  /\ activeState' = r.activeState
                                   /\ samplesInState' = r.samplesInState
                                   /\ currentSignalEnvelope' = r.sig
                                   /\ currentNoiseEnvelope' = r.noise
                                   /\ rd' = rd + popped
                                   /\ totalConsumed' = totalConsumed + consumed
                                   /\ output' = output \o buff
                                   /\ labels' = labels \o
                                        [k \in 1..Len(r.posted) |->
                                            [id  |-> r.posted[k].id,
                                             pos |-> Len(output) + r.posted[k].index]]
                                   /\ evals' = evals + Len(r.trace)
                                   /\ refusals' = IF popped < Min(consumed, elements)
                                                  THEN refusals + 1 ELSE refusals
                                   /\ cycle' = [seen EXCEPT
                                        !.kind = "worked",
                                        !.outElements = outElements,
                                        !.N = N, !.i = r.i,
                                        !.broke = r.broke,
                                        !.consumed = consumed,
                                        !.popped = popped,
                                        !.forwarded = buff,
                                        !.posted = r.posted,
                                        !.trace = r.trace]
                                   /\ UNCHANGED <<arithmetic, config, stream, reserve>>

----------------------------------------------------------------------------
\* construction, configuration through the setters, and activate()

\* a configuration: the values the setters are called with before activate()
Config(mode, level, dwell, averages, ahead, ids) ==
    [forwardMode |-> mode,
     activationLeveldB |-> level[1], deactivationLeveldB |-> level[2],
     activationMinimum |-> dwell[1], activationMaximum |-> dwell[2],
     deactivationMinimum |-> dwell[3], deactivationMaximum |-> dwell[4],
     signalAverage |-> averages[1], noiseAverage |-> averages[2],
     lookahead |-> ahead,
     activationId |-> ids[1], deactivationId |-> ids[2]]

\* <<activationMinimum, activationMaximum, deactivationMinimum,
\*   deactivationMaximum>>: the defaults, and the minima and maxima in turn
Dwells == {<<0, 0, 0, 0>>,
           <<MinDwell, 0, 0, MaxDwell>>,
           <<0, MaxDwell, MinDwell, 0>>,
           <<MinDwell, MaxDwell, MinDwell, MaxDwell>>}

\* the configurations of a run: both forward modes, every lookahead and dwell
\* setting, a fast signal average against a slow noise average, 3.52 dB levels
Configs ==
    {Config(mode, <<352, 352>>, dwell, <<1443, 3476>>, ahead, <<"A", "D">>) :
        mode \in {"ALL", "ACTIVE"}, dwell \in Dwells, ahead \in 0..MaxLookahead}

\* the fields after the setters have been called with the values of c
Configured(c) ==
    /\ forwardMode = c.forwardMode
    /\ dropInactiveSamples = (c.forwardMode = "ACTIVE")
    /\ activationLeveldB = c.activationLeveldB
    /\ activationFactor = Pow10Level(c.activationLeveldB)
    /\ activationMinimum = c.activationMinimum
    /\ activationMaximum = c.activationMaximum
    /\ deactivationLeveldB = c.deactivationLeveldB
    /\ deactivationFactor = Pow10Level(c.deactivationLeveldB)
    /\ deactivationMinimum = c.deactivationMinimum
    /\ deactivationMaximum = c.deactivationMaximum
    /\ signalAverage = c.signalAverage
    /\ signalGain = ExpGain(c.signalAverage)
    /\ oneMinusSignalGain = GainDen - ExpGain(c.signalAverage)
    /\ noiseAverage = c.noiseAverage
    /\ noiseGain = ExpGain(c.noiseAverage)
    /\ oneMinusNoiseGain = GainDen - ExpGain(c.noiseAverage)
    /\ lookahead = c.lookahead
    /\ activationId = c.activationId
    /\ deactivationId = c.deactivationId

\* the fields after activate()
Activated ==
    /\ activeState = FALSE
    /\ samplesInState = 0
    /\ currentSignalEnvelope = 0
    /\ currentNoiseEnvelope = 0

\* a topology without the Arithmetic block, its feeder and its collector
NoArithmetic ==
    /\ feederBuffer = <<>>
    /\ fed = 0
    /\ preload = <<>>
    /\ numInlineBuffers = 0
    /\ in0 = <<>>
    /\ in1 = <<>>
    /\ toInput1 = <<>>
    /\ toCollector = <<>>
    /\ collector = <<>>

\* the ports of a topology that has not run yet
PortsEmpty ==
    /\ stream = <<>>
    /\ rd = 0
    /\ totalConsumed = 0
    /\ reserve = 0
    /\ output = <<>>
    /\ labels = <<>>
    /\ evals = 0
    /\ refusals = 0
    /\ cycle = NoCycle

Init ==
    /\ \E c \in Configs : Configured(c)
    /\ Activated
    /\ PortsEmpty
    /\ NoArithmetic

Next ==
    \/ \E x \in Samples : Deliver(x)
    \/ \E outElements \in 0..MaxOut : Work(outElements)

Spec == Init /\ [][Next]_vars

\* the configurations of the runs on quiet input: no dwell maxima, the signal
\* average faster than, equal to and slower than the noise average, 0 dB and
\* 3.52 dB activation levels
QuietConfigs ==
    {Config("ACTIVE", <<level, 352>>, dwell, averages, ahead, <<"A", "D">>) :
        level \in {0, 352},
        dwell \in {<<0, 0, 0, 0>>},
        averages \in {<<1443, 3476>>, <<1443, 1443>>, <<3476, 1443>>},
        ahead \in 0..MaxLookahead}

InitQuiet ==
    /\ \E c \in QuietConfigs : Configured(c)
    /\ Activated
    /\ PortsEmpty
    /\ NoArithmetic

SpecQuiet == InitQuiet /\ [][Next]_vars

\* the configurations of the runs on the label ids: each id empty or not, both
\* forward modes, every lookahead, no dwell limits
IdConfigs ==
    {Config(mode, <<352, 352>>, <<0, 0, 0, 0>>, <<1443, 3476>>, ahead, ids) :
        mode \in {"ALL", "ACTIVE"}, ahead \in 0..MaxLookahead,
        ids \in {"", "A"} \X {"", "D"}}

InitIds ==
    /\ \E c \in IdConfigs : Configured(c)
    /\ Activated
    /\ PortsEmpty
    /\ NoArithmetic

SpecIds == InitIds /\ [][Next]_vars

\* activate() with only the state and the sample counter reset
ActivateKeepingEnvelopes ==
    /\ activeState' = FALSE
    /\ samplesInState' = 0
    /\ cycle' = [NoCycle EXCEPT !.kind = "activated", !.entryState = activeState]
    /\ UNCHANGED <<arithmetic, config, currentSignalEnvelope, currentNoiseEnvelope, ports,
                   evals, refusals>>

\* activate(), called by the host between work() calls when the topology is
\* started again; the ports keep what they hold.  cycle records the call and
\* the state it found.
Activate ==
    /\ activeState' = FALSE
    /\ samplesInState' = 0
    /\ currentSignalEnvelope' = 0
    /\ currentNoiseEnvelope' = 0
    /\ cycle' = [NoCycle EXCEPT !.kind = "activated", !.entryState = activeState]
    /\ UNCHANGED <<arithmetic, config, ports, evals, refusals>>

\* the configurations of the runs with restarts: both forward modes, every
\* lookahead, no dwell limits
RestartConfigs ==
    {Config(mode, <<352, 352>>, <<0, 0, 0, 0>>, <<1443, 3476>>, ahead, <<"A", "D">>) :
        mode \in {"ALL", "ACTIVE"}, ahead \in 0..MaxLookahead}

InitRestart ==
    /\ \E c \in RestartConfigs : Configured(c)
    /\ Activated
    /\ PortsEmpty
    /\ NoArithmetic

NextRestart ==
    \/ Next
    \/ Activate

SpecRestart == InitRestart /\ [][NextRestart]_vars

----------------------------------------------------------------------------
\* the setters, called by the host between work() calls; cycle keeps the last
\* work() call unless the setter throws

\* what cycle holds after a setter has thrown: the exception
Thrown == [NoCycle EXCEPT !.kind = "InvalidArgumentException"]

\* setForwardMode with _forwardMode assigned before the mode is looked at
SetForwardModeAssignFirst(mode) ==
    /\ forwardMode' = mode
    /\ dropInactiveSamples' = IF mode = "ALL" THEN FALSE
                              ELSE IF mode = "ACTIVE" THEN TRUE
                              ELSE dropInactiveSamples
    /\ cycle' = IF mode \in {"ALL", "ACTIVE"} THEN cycle ELSE Thrown
    /\ UNCHANGED <<arithmetic, activationLeveldB, activationFactor, activationMinimum,
                   activationMaximum, deactivationLeveldB, deactivationFactor,
                   deactivationMinimum, deactivationMaximum, signalAverage,
                   signalGain, oneMinusSignalGain, noiseAverage, noiseGain,
                   oneMinusNoiseGain, lookahead, activationId, deactivationId,
                   runtime, ports, evals, refusals>>

\* setForwardMode(mode)
SetForwardMode(mode) ==
    IF mode = "ALL"
    THEN /\ dropInactiveSamples' = FALSE
         /\ forwardMode' = mode
         /\ UNCHANGED cycle
         /\ UNCHANGED <<arithmetic, activationLeveldB, activationFactor,
                        activationMinimum, activationMaximum,
                        deactivationLeveldB, deactivationFactor,
                        deactivationMinimum, deactivationMaximum,
                        signalAverage, signalGain, oneMinusSignalGain,
                        noiseAverage, noiseGain, oneMinusNoiseGain, lookahead,
                        activationId, deactivationId, runtime, ports, evals,
                        refusals>>
    ELSE IF mode = "ACTIVE"
    THEN /\ dropInactiveSamples' = TRUE
         /\ forwardMode' = mode
         /\ UNCHANGED cycle
         /\ UNCHANGED <<arithmetic, activationLeveldB, activationFactor,
                        activationMinimum, activationMaximum,
                        deactivationLeveldB, deactivationFactor,
                        deactivationMinimum, deactivationMaximum,
                        signalAverage, signalGain, oneMinusSignalGain,
                        noiseAverage, noiseGain, oneMinusNoiseGain, lookahead,
                        activationId, deactivationId, runtime, ports, evals,
                        refusals>>
    ELSE /\ cycle' = Thrown
         /\ UNCHANGED <<arithmetic, config, runtime, ports, evals, refusals>>

\* setActivationLevel(level)
SetActivationLevel(level) ==
    /\ activationLeveldB' = level
    /\ activationFactor' = Pow10Level(level)
    /\ UNCHANGED cycle
    /\ UNCHANGED <<arithmetic, forwardMode, dropInactiveSamples, activationMinimum,
                   activationMaximum, deactivationLeveldB, deactivationFactor,
                   deactivationMinimum, deactivationMaximum, signalAverage,
                   signalGain, oneMinusSignalGain, noiseAverage, noiseGain,
                   oneMinusNoiseGain, lookahead, activationId, deactivationId,
                   runtime, ports, evals, refusals>>

\* setActivationMinimum(minimum)
SetActivationMinimum(minimum) ==
    /\ activationMinimum' = minimum
    /\ UNCHANGED cycle
    /\ UNCHANGED <<arithmetic, forwardMode, dropInactiveSamples, activationLeveldB,
                   activationFactor, activationMaximum, deactivationLeveldB,
                   deactivationFactor, deactivationMinimum,
                   deactivationMaximum, signalAverage, signalGain,
                   oneMinusSignalGain, noiseAverage, noiseGain,
                   oneMinusNoiseGain, lookahead, activationId, deactivationId,
                   runtime, ports, evals, refusals>>

\* setActivationMaximum(maximum)
SetActivationMaximum(maximum) ==
    /\ activationMaximum' = maximum
    /\ UNCHANGED cycle
    /\ UNCHANGED <<arithmetic, forwardMode, dropInactiveSamples, activationLeveldB,
                   activationFactor, activationMinimum, deactivationLeveldB,
                   deactivationFactor, deactivationMinimum,
                   deactivationMaximum, signalAverage, signalGain,
                   oneMinusSignalGain, noiseAverage, noiseGain,
                   oneMinusNoiseGain, lookahead, activationId, deactivationId,
                   runtime, ports, evals, refusals>>

\* setDeactivationLevel(level)
SetDeactivationLevel(level) ==
    /\ deactivationLeveldB' = level
    /\ deactivationFactor' = Pow10Level(level)
    /\ UNCHANGED cycle
    /\ UNCHANGED <<arithmetic, forwardMode, dropInactiveSamples, activationLeveldB,
                   activationFactor, activationMinimum, activationMaximum,
                   deactivationMinimum, deactivationMaximum, signalAverage,
                   signalGain, oneMinusSignalGain, noiseAverage, noiseGain,
                   oneMinusNoiseGain, lookahead, activationId, deactivationId,
                   runtime, ports, evals, refusals>>

\* setDeactivationMinimum(minimum)
SetDeactivationMinimum(minimum) ==
    /\ deactivationMinimum' = minimum
    /\ UNCHANGED cycle
    /\ UNCHANGED <<arithmetic, forwardMode, dropInactiveSamples, activationLeveldB,
                   activationFactor, activationMinimum, activationMaximum,
                   deactivationLeveldB, deactivationFactor,
                   deactivationMaximum, signalAverage, signalGain,
                   oneMinusSignalGain, noiseAverage, noiseGain,
                   oneMinusNoiseGain, lookahead, activationId, deactivationId,
                   runtime, ports, evals, refusals>>

\* setDeactivationMaximum(maximum)
SetDeactivationMaximum(maximum) ==
    /\ deactivationMaximum' = maximum
    /\ UNCHANGED cycle
    /\ UNCHANGED <<arithmetic, forwardMode, dropInactiveSamples, activationLeveldB,
                   activationFactor, activationMinimum, activationMaximum,
                   deactivationLeveldB, deactivationFactor,
                   deactivationMinimum, signalAverage, signalGain,
                   oneMinusSignalGain, noiseAverage, noiseGain,
                   oneMinusNoiseGain, lookahead, activationId, deactivationId,
                   runtime, ports, evals, refusals>>

\* setSignalAverage with the signal envelope cleared for the new average
SetSignalAverageClearing(signalAvg) ==
    /\ signalAverage' = signalAvg
    /\ signalGain' = ExpGain(signalAvg)
    /\ oneMinusSignalGain' = GainDen - ExpGain(signalAvg)
    /\ currentSignalEnvelope' = 0
    /\ UNCHANGED cycle
    /\ UNCHANGED <<arithmetic, forwardMode, dropInactiveSamples, activationLeveldB,
                   activationFactor, activationMinimum, activationMaximum,
                   deactivationLeveldB, deactivationFactor,
                   deactivationMinimum, deactivationMaximum, noiseAverage,
                   noiseGain, oneMinusNoiseGain, lookahead, activationId,
                   deactivationId, activeState, samplesInState,
                   currentNoiseEnvelope, ports, evals, refusals>>

\* setSignalAverage(signalAvg)
SetSignalAverage(signalAvg) ==
    /\ signalAverage' = signalAvg
    /\ signalGain' = ExpGain(signalAvg)
    /\ oneMinusSignalGain' = GainDen - ExpGain(signalAvg)
    /\ UNCHANGED cycle
    /\ UNCHANGED <<arithmetic, forwardMode, dropInactiveSamples, activationLeveldB,
                   activationFactor, activationMinimum, activationMaximum,
                   deactivationLeveldB, deactivationFactor,
                   deactivationMinimum, deactivationMaximum, noiseAverage,
                   noiseGain, oneMinusNoiseGain, lookahead, activationId,
                   deactivationId, runtime, ports, evals, refusals>>

\* setNoiseAverage(noiseAvg)
SetNoiseAverage(noiseAvg) ==
    /\ noiseAverage' = noiseAvg
    /\ noiseGain' = ExpGain(noiseAvg)
    /\ oneMinusNoiseGain' = GainDen - ExpGain(noiseAvg)
    /\ UNCHANGED cycle
    /\ UNCHANGED <<arithmetic, forwardMode, dropInactiveSamples, activationLeveldB,
                   activationFactor, activationMinimum, activationMaximum,
                   deactivationLeveldB, deactivationFactor,
                   deactivationMinimum, deactivationMaximum, signalAverage,
                   signalGain, oneMinusSignalGain, lookahead, activationId,
                   deactivationId, runtime, ports, evals, refusals>>

\* setLookahead(lookahead)
SetLookahead(ahead) ==
    /\ lookahead' = ahead
    /\ UNCHANGED cycle
    /\ UNCHANGED <<arithmetic, forwardMode, dropInactiveSamples, activationLeveldB,
                   activationFactor, activationMinimum, activationMaximum,
                   deactivationLeveldB, deactivationFactor,
                   deactivationMinimum, deactivationMaximum, signalAverage,
                   signalGain, oneMinusSignalGain, noiseAverage, noiseGain,
                   oneMinusNoiseGain, activationId, deactivationId, runtime,
                   ports, evals, refusals>>

\* setActivationId(id)
SetActivationId(id) ==
    /\ activationId' = id
    /\ UNCHANGED cycle
    /\ UNCHANGED <<arithmetic, forwardMode, dropInactiveSamples, activationLeveldB,
                   activationFactor, activationMinimum, activationMaximum,
                   deactivationLeveldB, deactivationFactor,
                   deactivationMinimum, deactivationMaximum, signalAverage,
                   signalGain, oneMinusSignalGain, noiseAverage, noiseGain,
                   oneMinusNoiseGain, lookahead, deactivationId, runtime,
                   ports, evals, refusals>>

\* setDeactivationId(id)
SetDeactivationId(id) ==
    /\ deactivationId' = id
    /\ UNCHANGED cycle
    /\ UNCHANGED <<arithmetic, forwardMode, dropInactiveSamples, activationLeveldB,
                   activationFactor, activationMinimum, activationMaximum,
                   deactivationLeveldB, deactivationFactor,
                   deactivationMinimum, deactivationMaximum, signalAverage,
                   signalGain, oneMinusSignalGain, noiseAverage, noiseGain,
                   oneMinusNoiseGain, lookahead, activationId, runtime, ports,
                   evals, refusals>>

\* the arguments the host calls setForwardMode with during a run: both modes
\* and a string that is no mode; the other setters are called with the value
\* the parameter has
SetterModes == {"ALL", "ACTIVE", "NONE"}

\* a call of one of the setters
Setter ==
    \/ \E mode \in SetterModes : SetForwardMode(mode)
    \/ SetActivationLevel(activationLeveldB)
    \/ SetActivationMinimum(activationMinimum)
    \/ SetActivationMaximum(activationMaximum)
    \/ SetDeactivationLevel(deactivationLeveldB)
    \/ SetDeactivationMinimum(deactivationMinimum)
    \/ SetDeactivationMaximum(deactivationMaximum)
    \/ SetSignalAverage(signalAverage)
    \/ SetNoiseAverage(noiseAverage)
    \/ SetLookahead(lookahead)
    \/ SetActivationId(activationId)
    \/ SetDeactivationId(deactivationId)

\* the configuration the runs with setter calls start from
SetterConfigs ==
    {Config("ACTIVE", <<352, 352>>, <<0, 0, 0, 0>>, <<1443, 3476>>, ahead, <<"A", "D">>) :
        ahead \in 0..MaxLookahead}

InitSetters ==
    /\ \E c \in SetterConfigs : Configured(c)
    /\ Activated
    /\ PortsEmpty
    /\ NoArithmetic

NextSetters ==
    \/ Next
    \/ Setter

SpecSetters == InitSetters /\ [][NextSetters]_vars

----------------------------------------------------------------------------
\* The Arithmetic block of math/Arithmetic.cpp in the feedback topology of
\* test_arithmetic_feedback: feeder -> input 0, output 0 -> input 1 and
\* output 0 -> collector, with ADD on int elements and preload <<0, 1>>.

\* elements in the feeder's buffer, at most
MaxFeed == 4

\* the element values the feeder is loaded with
Elements == {-1, 0, 2}

\* the function of "SUB" in place of that of "ADD": out[i] = in0[i] - in1[i]
SubFcn(a, b, num) == [k \in 1..num |-> a[k] - b[k]]

\* getAddFcn: out[i] = in0[i] + in1[i] for i < num
AddFcn(a, b, num) == [k \in 1..num |-> a[k] + b[k]]

\* the zeroed buffer activate() pushes to an input for a preload of `count`
\* elements
PreloadBuffer(count) == [k \in 1..count |-> 0]

\* setPreload(preload) with the test's vector, then activate(): an input with
\* a preload is cleared and holds the zeroed buffer, the others are untouched
ArithmeticActivated ==
    /\ preload = <<0, 1>>
    /\ numInlineBuffers = 0
    /\ in0 = <<>>
    /\ in1 = PreloadBuffer(preload[2])
    /\ toInput1 = <<>>
    /\ toCollector = <<>>
    /\ collector = <<>>

\* the feeder sends the next `count` elements of its buffer to input 0
Feed(count) ==
    /\ fed + count <= Len(feederBuffer)
    /\ in0' = in0 \o SubSeq(feederBuffer, fed + 1, fed + count)
    /\ fed' = fed + count
    /\ UNCHANGED <<feederBuffer, preload, numInlineBuffers, in1, toInput1,
                   toCollector, collector, detector>>

\* Arithmetic::work() with `outElements` elements free on output 0 and the
\* output buffer being the buffer of input 0 or not (`inlined`); the elements
\* produced leave for both subscribers of output 0
ArithmeticWork(outElements, inlined) ==
    LET elems == Min(Min(Len(in0), Len(in1)), outElements)
    IN  IF elems = 0
        THEN UNCHANGED vars
        ELSE LET out == AddFcn(in0, in1, elems)
             IN  /\ numInlineBuffers' = IF inlined THEN numInlineBuffers + 1
                                        ELSE numInlineBuffers
                 /\ in1' = SubSeq(in1, elems + 1, Len(in1))
                 /\ in0' = SubSeq(in0, elems + 1, Len(in0))
                 /\ toInput1' = toInput1 \o out
                 /\ toCollector' = toCollector \o out
                 /\ UNCHANGED <<feederBuffer, fed, preload, collector, detector>>

\* the host hands the produced elements in flight to input 1
DeliverInput1 ==
    /\ toInput1 # <<>>
    /\ in1' = in1 \o toInput1
    /\ toInput1' = <<>>
    /\ UNCHANGED <<feederBuffer, fed, preload, numInlineBuffers, in0,
                   toCollector, collector, detector>>

\* the host hands the produced elements in flight to the collector
DeliverCollector ==
    /\ toCollector # <<>>
    /\ collector' = collector \o toCollector
    /\ toCollector' = <<>>
    /\ UNCHANGED <<feederBuffer, fed, preload, numInlineBuffers, in0, in1,
                   toInput1, detector>>

\* the buffers the feeder can be loaded with
FeederBuffers ==
    UNION {[1..n -> Elements] : n \in 1..MaxFeed}

\* the detector of a topology it is not part of
NoDetector ==
    /\ Configured(Config("ACTIVE", <<352, 352>>, <<0, 0, 0, 0>>,
                         <<1443, 3476>>, 0, <<"", "">>))
    /\ Activated
    /\ PortsEmpty

InitFeedback ==
    /\ feederBuffer \in FeederBuffers
    /\ fed = 0
    /\ ArithmeticActivated
    /\ NoDetector

NextFeedback ==
    \/ \E count \in 1..MaxFeed : Feed(count)
    \/ \E outElements \in 0..MaxOut, inlined \in BOOLEAN :
           ArithmeticWork(outElements, inlined)
    \/ DeliverInput1
    \/ DeliverCollector

SpecFeedback == InitFeedback /\ [][NextFeedback]_vars

----------------------------------------------------------------------------
\* Properties

\* the last work() call got past both early returns
Worked == cycle.kind = "worked"

\* the values the test of the last evaluated decision sample read
LastEval == cycle.trace[Len(cycle.trace)]

\* signalEnvelope > noiseEnvelope * activationFactor on the values of e
CrossedUp(e) == e.sig * FactorDen > e.noise * activationFactor

\* signalEnvelope < noiseEnvelope * deactivationFactor on the values of e
CrossedDown(e) == e.sig * FactorDen < e.noise * deactivationFactor

\* the transition test of the INACTIVE state as section 4.2 states it
ActivationTest(e) ==
    \/ (e.sis > deactivationMinimum /\ CrossedUp(e))
    \/ (deactivationMaximum # 0 /\ e.sis > deactivationMaximum)

\* the transition test of the ACTIVE state as section 4.2 states it
DeactivationTest(e) ==
    \/ (e.sis > activationMinimum /\ CrossedDown(e))
    \/ (activationMaximum # 0 /\ e.sis > activationMaximum)

\* C1: every decision sample evaluated while INACTIVE makes the detector
\* ACTIVE if and only if (samplesInState > deactivationMinimum and
\* signalEnvelope > noiseEnvelope * activationFactor) or (deactivationMaximum
\* # 0 and samplesInState > deactivationMaximum), on the counter after its
\* increment and the envelopes after their update; otherwise it stays INACTIVE
\* (and evaluation goes on with the counter and envelopes of that sample).
C1_InactiveDecision ==
    (Worked /\ ~cycle.entryState) =>
        /\ \A k \in 1..(Len(cycle.trace) - 1) : ~ActivationTest(cycle.trace[k])
        /\ activeState <=> ActivationTest(LastEval)
        /\ \A k \in 1..Len(cycle.trace) :
              cycle.trace[k].sis >= 1 /\ cycle.trace[k].i = k - 1
        /\ ~activeState => /\ samplesInState = LastEval.sis
                           /\ currentSignalEnvelope = LastEval.sig
                           /\ currentNoiseEnvelope = LastEval.noise

\* C1 witness: a cycle that began INACTIVE evaluated a sample that kept it
\* INACTIVE and then one that crossed the activation threshold
C1_Witness ==
    /\ Worked /\ ~cycle.entryState /\ activeState
    /\ Len(cycle.trace) >= 2
    /\ CrossedUp(LastEval)
    /\ ~(deactivationMaximum # 0 /\ LastEval.sis > deactivationMaximum)

\* C2: every decision sample evaluated while ACTIVE makes the detector
\* INACTIVE if and only if (samplesInState > activationMinimum and
\* signalEnvelope < noiseEnvelope * deactivationFactor) or (activationMaximum
\* # 0 and samplesInState > activationMaximum), on the counter after its
\* increment and the signal envelope after its update; otherwise it stays
\* ACTIVE.
C2_ActiveDecision ==
    (Worked /\ cycle.entryState) =>
        /\ \A k \in 1..(Len(cycle.trace) - 1) : ~DeactivationTest(cycle.trace[k])
        /\ ~activeState <=> DeactivationTest(LastEval)
        /\ \A k \in 1..Len(cycle.trace) :
              cycle.trace[k].sis >= 1 /\ cycle.trace[k].i = k - 1
        /\ activeState => /\ samplesInState = LastEval.sis
                          /\ currentSignalEnvelope = LastEval.sig

\* C2 witness: a cycle that began ACTIVE evaluated a sample that kept it
\* ACTIVE and then one that fell below the deactivation threshold
C2_Witness ==
    /\ Worked /\ cycle.entryState /\ ~activeState
    /\ Len(cycle.trace) >= 2
    /\ CrossedDown(LastEval)
    /\ ~(activationMaximum # 0 /\ LastEval.sis > activationMaximum)

\* the elements the last work() call consumed: those from the read position
\* it found, as many as it passed to consume()
ConsumedSpan ==
    SubSeq(stream, rd - cycle.popped + 1, rd - cycle.popped + cycle.consumed)

\* C3: with forwardMode = ACTIVE a cycle forwards its consumed span if and
\* only if the state at its entry was ACTIVE; a cycle that begins INACTIVE
\* consumes its span and produces nothing, also when it ends in a transition
\* to ACTIVE; so the total output length never exceeds the total input length.
C3_ActiveForwarding ==
    dropInactiveSamples =>
        /\ Worked =>
              /\ cycle.consumed >= 1
              /\ cycle.entryState => Len(cycle.forwarded) = cycle.consumed
              /\ ~cycle.entryState => cycle.forwarded = <<>>
        /\ Len(output) <= Len(stream)

\* C3 without its last clause: what each cycle forwards
C3_ForwardsByEntryState ==
    (dropInactiveSamples /\ Worked) =>
        /\ cycle.consumed >= 1
        /\ cycle.entryState => Len(cycle.forwarded) = cycle.consumed
        /\ ~cycle.entryState => cycle.forwarded = <<>>

\* C4 as stated: with forwardMode = ALL the number of elements forwarded
\* equals the number of elements delivered on the input.
C4_ForwardedEqualsDelivered ==
    (~dropInactiveSamples /\ cycle.kind # "none") => Len(output) = Len(stream)

\* C4 as amended: with forwardMode = ALL, after any sequence of processing
\* cycles the number of elements forwarded equals the sum of the counts the
\* detector passed to consume().
C4_ForwardedEqualsConsumed ==
    ~dropInactiveSamples => Len(output) = totalConsumed

\* C4 witness: forwardMode = ALL, at least two cycles have forwarded, one of
\* them from the INACTIVE state, and elements are still buffered
C4_Witness ==
    /\ ~dropInactiveSamples /\ Worked /\ ~cycle.entryState
    /\ Len(output) > Len(cycle.forwarded)
    /\ Len(cycle.forwarded) >= 1
    /\ Len(stream) > rd

\* C5: with forwardMode = ALL every cycle that consumes forwards exactly the
\* span it consumed (same length, same elements), and the forwarded chunks
\* in order are the input in order.
C5_AllForwardsConsumedSpan ==
    ~dropInactiveSamples =>
        /\ Worked =>
              /\ Len(cycle.forwarded) = cycle.consumed
              /\ rd - cycle.popped + cycle.consumed <= Len(stream)
              /\ cycle.forwarded = ConsumedSpan
        /\ Len(output) <= Len(stream)
        /\ output = SubSeq(stream, 1, Len(output))

\* C5 where no cycle consumes more than the port holds
C5_WithinThePort ==
    (~dropInactiveSamples /\ totalConsumed = rd) =>
        /\ Worked =>
              /\ Len(cycle.forwarded) = cycle.consumed
              /\ cycle.forwarded = ConsumedSpan
        /\ output = SubSeq(stream, 1, Len(output))

\* C6: a work call that finds at most lookahead elements on the input only
\* requests a reserve of lookahead + 1 and returns: nothing is consumed or
\* forwarded, no label is posted, state, samplesInState and both envelopes
\* stay as they are.  Conversely a step that evaluates samples starts with
\* at least lookahead + 1 elements on the input.
C6_Starvation ==
    [][/\ (stream' = stream /\ Len(stream) - rd <= lookahead) =>
            /\ reserve' = lookahead + 1
            /\ cycle'.kind = "starved"
            /\ UNCHANGED <<runtime, config, rd, totalConsumed, output, labels, evals>>
       /\ (evals' # evals \/ runtime' # runtime) =>
            Len(stream) - rd >= lookahead + 1]_vars

\* C6 witness: the last call found exactly lookahead > 0 elements, after
\* earlier calls had evaluated samples, and asked for the reserve
C6_Witness ==
    /\ cycle.kind = "starved"
    /\ lookahead > 0 /\ cycle.elements = lookahead
    /\ Len(stream) - rd = lookahead
    /\ reserve = lookahead + 1
    /\ evals > 0

\* C7: at most one transition per cycle: only the last decision sample a
\* cycle evaluates can trigger one; with a transition the cycle consumes
\* exactly the positions up to and including the triggering one, and the
\* host pops just those, leaving the rest for the next cycle.
C7_OneTransitionPerCycle ==
    Worked =>
        LET n == Len(cycle.trace)
            Trigger(e) == IF cycle.entryState THEN DeactivationTest(e)
                          ELSE ActivationTest(e)
        IN  /\ n >= 1 /\ n <= cycle.N
            /\ \A k \in 1..(n - 1) : ~Trigger(cycle.trace[k])
            /\ cycle.broke <=> Trigger(cycle.trace[n])
            /\ cycle.broke <=> (activeState # cycle.entryState)
            /\ cycle.broke =>
                  /\ samplesInState = 0
                  /\ cycle.trace[n].i = cycle.i
                  /\ cycle.consumed = cycle.i + 1
                  /\ cycle.consumed = n
                  /\ cycle.popped = cycle.consumed
                  /\ cycle.consumed <= cycle.elements - lookahead

\* C7 witness: a transition at the first of several positions of the work
\* size, the rest left on the input
C7_Witness ==
    /\ Worked /\ cycle.broke
    /\ cycle.N >= 2 /\ cycle.i = 0
    /\ cycle.consumed = 1
    /\ Len(stream) - rd >= cycle.N - 1 + lookahead

C9_MinimumDwell ==
    Worked =>
        /\ (cycle.entryState /\ ~activeState) =>
              \/ LastEval.sis > activationMinimum
              \/ (activationMaximum # 0 /\ LastEval.sis > activationMaximum)
        /\ (~cycle.entryState /\ activeState) =>
              \/ LastEval.sis > deactivationMinimum
              \/ (deactivationMaximum # 0 /\ LastEval.sis > deactivationMaximum)

\* C9 witness: ACTIVE with activationMinimum > 0, the signal envelope below
\* the deactivation threshold at a sample within the minimum, and the
\* detector still ACTIVE after it
C9_Witness ==
    /\ Worked /\ cycle.entryState /\ activeState
    /\ activationMinimum > 0
    /\ LastEval.sis <= activationMinimum
    /\ CrossedDown(LastEval)

\* every element delivered so far is zero
AllZero == \A k \in 1..Len(stream) : stream[k] = 0

\* every element delivered so far has the same magnitude
ConstantMagnitude ==
    \A j, k \in 1..Len(stream) : Abs(stream[j]) = Abs(stream[k])

\* C10 as stated: from a fresh activation with no deactivationMaximum, on an
\* all-zero input and on an input of constant magnitude the state remains
\* INACTIVE and no activation label is emitted.
C10_NoFalseActivation ==
    (deactivationMaximum = 0 /\ ConstantMagnitude) =>
        (~activeState /\ labels = <<>>)

\* C10 as amended: from a fresh activation with no deactivationMaximum the
\* state remains INACTIVE and no label is emitted on an all-zero input, and
\* on an input of constant magnitude when the two averaging gains are equal
\* and the activation factor is at least 1.
C10_NoFalseActivationOnQuiet ==
    deactivationMaximum = 0 =>
        /\ AllZero => (~activeState /\ samplesInState = evals /\ labels = <<>>)
        /\ (ConstantMagnitude /\ signalGain = noiseGain
              /\ activationFactor >= FactorDen) =>
                 (~activeState /\ samplesInState = evals /\ labels = <<>>)

\* C10 witness: every element of the longest all-zero input has been
\* delivered, the signal average faster than the noise average, and several
\* cycles have evaluated its decision samples
C10_Witness ==
    /\ deactivationMaximum = 0 /\ AllZero
    /\ Len(stream) = MaxStream
    /\ signalGain < noiseGain
    /\ evals >= 3 /\ Worked /\ Len(cycle.trace) < evals
    /\ ~activeState

\* the magnitude of the decision sample of iteration k (k = 1 is position 0)
\* of a work() call that finds the read position at rd
EvaluatedMagnitude(k) == Abs(stream[rd + lookahead + k])

\* gain*before + oneMinusGain*xn = after, on the envelope numerators
SinglePole(gain, oneMinusGain, before, xn, after) ==
    after * GainDen = gain * before + oneMinusGain * xn * Scale

\* C11: the noise envelope is updated only by decision samples evaluated in
\* the INACTIVE state: a work() call that starts in the ACTIVE state leaves
\* currentNoiseEnvelope as it was, at every sample it evaluates and when it
\* returns; the signal envelope is updated with the single-pole average by
\* every evaluated decision sample in both states, the noise envelope by every
\* one evaluated in the INACTIVE state; a call that evaluates nothing changes
\* neither.
C11_NoiseFrozenWhileActive ==
    [][LET t == cycle'.trace
           sigBefore(k)   == IF k = 1 THEN currentSignalEnvelope ELSE t[k - 1].sig
           noiseBefore(k) == IF k = 1 THEN currentNoiseEnvelope ELSE t[k - 1].noise
       IN  /\ evals' = evals =>
                UNCHANGED <<currentSignalEnvelope, currentNoiseEnvelope>>
           /\ evals' > evals =>
                /\ Len(t) = evals' - evals
                /\ \A k \in 1..Len(t) :
                      SinglePole(signalGain, oneMinusSignalGain, sigBefore(k),
                                 EvaluatedMagnitude(k), t[k].sig)
                /\ currentSignalEnvelope' = t[Len(t)].sig
                /\ activeState =>
                      /\ \A k \in 1..Len(t) : t[k].noise = currentNoiseEnvelope
                      /\ currentNoiseEnvelope' = currentNoiseEnvelope
                /\ ~activeState =>
                      /\ \A k \in 1..Len(t) :
                            SinglePole(noiseGain, oneMinusNoiseGain, noiseBefore(k),
                                       EvaluatedMagnitude(k), t[k].noise)
                      /\ currentNoiseEnvelope' = t[Len(t)].noise]_vars

\* C11 witness: a cycle that began ACTIVE with a non-zero noise envelope
\* evaluated two samples, each moving the signal envelope, and the noise
\* envelope is the one every test of the cycle read
C11_Witness ==
    /\ Worked /\ cycle.entryState
    /\ Len(cycle.trace) >= 2
    /\ cycle.trace[1].sig # cycle.trace[2].sig
    /\ currentNoiseEnvelope > 0
    /\ \A k \in 1..Len(cycle.trace) : cycle.trace[k].noise = currentNoiseEnvelope

\* the labels a step posts
NewLabels == SubSeq(labels', Len(labels) + 1, Len(labels'))

\* the positions in ls of the labels with the given id
WithId(ls, id) == {k \in 1..Len(ls) : ls[k].id = id}

\* ACTIVE was entered and no decision sample has been evaluated since
JustActivated == activeState /\ samplesInState = 0

\* C12: with activationId non-empty, the detector is ACTIVE with
\* samplesInState = 0 only from an INACTIVE -> ACTIVE transition until the next
\* work() call that evaluates a sample; that call posts exactly one activation
\* label, at offset 0 of the buffer it forwards (the first element of its
\* visible window), and leaves that condition; no other step posts an
\* activation label.  So each transition gives at most one activation label.
C12_ActivationLabel ==
    [][activationId # "" =>
        LET first   == JustActivated /\ evals' > evals
            posted  == WithId(NewLabels, activationId)
        IN  /\ JustActivated' =>
                  \/ ~activeState
                  \/ (JustActivated /\ evals' = evals)
            /\ first =>
                  /\ posted = {1}
                  /\ NewLabels[1].pos = Len(output)
                  /\ Len(output') > Len(output)
                  /\ output'[Len(output) + 1] = stream[rd + 1]
                  /\ ~JustActivated'
            /\ ~first => posted = {}]_vars

\* C12 witness: the activation label of a transition has just been posted, at
\* the head of a buffer forwarded behind earlier output, by a call with a
\* lookahead that evaluated two samples and left the detector ACTIVE
C12_Witness ==
    /\ Worked /\ cycle.entryState /\ activeState
    /\ lookahead > 0
    /\ Len(cycle.trace) = 2
    /\ cycle.posted = <<[id |-> activationId, index |-> 0]>>
    /\ labels = <<[id |-> activationId, pos |-> Len(output) - Len(cycle.forwarded)]>>
    /\ labels[1].pos > 0

\* C13: with deactivationId non-empty, a work() call that takes the detector
\* from ACTIVE to INACTIVE posts exactly one deactivation label, in that call,
\* at offset i of the buffer it forwards, i the position whose evaluation
\* triggered the exit: the last element the call forwards and consumes (its
\* decision sample lies lookahead elements further on).  No other step posts
\* a deactivation label.
C13_DeactivationLabel ==
    [][deactivationId # "" =>
        LET left   == activeState /\ ~activeState'
            posted == WithId(NewLabels, deactivationId)
            last   == NewLabels[Len(NewLabels)]
        IN  /\ left =>
                  /\ posted = {Len(NewLabels)}
                  /\ cycle'.i = Len(cycle'.trace) - 1
                  /\ last.pos = Len(output) + cycle'.i
                  /\ last.pos = Len(output') - 1
                  /\ output'[last.pos + 1] = stream[rd + cycle'.i + 1]
                  /\ rd' = rd + cycle'.i + 1
            /\ ~left => posted = {}]_vars

\* C13 witness: a call with a lookahead that evaluated two samples left
\* ACTIVE at the second and posted the deactivation label at offset 1, the
\* last element of its buffer, behind the activation label
C13_Witness ==
    /\ Worked /\ cycle.entryState /\ ~activeState
    /\ lookahead > 0
    /\ Len(cycle.trace) = 2
    /\ cycle.posted[Len(cycle.posted)] = [id |-> deactivationId, index |-> 1]
    /\ Len(labels) = 2
    /\ labels[1].id = activationId
    /\ labels[2] = [id |-> deactivationId, pos |-> Len(output) - 1]

\* the loop of a work() call as sections 4.1 and 4.2 state it, with no label
\* in it: positions k..N-1 evaluated in state `active` from the counter and
\* envelopes given, up to the first sample whose test holds
RECURSIVE Evaluate(_, _, _, _, _, _)
Evaluate(active, k, N, sis, sig, noise) ==
    IF k >= N
    THEN [i |-> k, broke |-> FALSE, sis |-> sis, sig |-> sig, noise |-> noise]
    ELSE LET xn == EvaluatedMagnitude(k + 1)
             e  == [sis   |-> sis + 1,
                    sig   |-> (signalGain * sig + oneMinusSignalGain * xn * Scale)
                                 \div GainDen,
                    noise |-> IF active THEN noise
                              ELSE (noiseGain * noise + oneMinusNoiseGain * xn * Scale)
                                      \div GainDen]
         IN  IF (IF active THEN DeactivationTest(e) ELSE ActivationTest(e))
             THEN [i |-> k, broke |-> TRUE, sis |-> 0, sig |-> e.sig, noise |-> e.noise]
             ELSE Evaluate(active, k + 1, N, e.sis, e.sig, e.noise)

\* C14: no posted label has an empty id and every posted label has one of the
\* two configured ids, so with an empty activationId no activation label and
\* with an empty deactivationId no deactivation label is ever posted; and
\* whatever the ids are, each work() call changes the state, the counter and
\* the envelopes, consumes and forwards as the label-free loop on the same
\* state, parameters and input does, so transitions and forwarding are the
\* same with an empty id as with a non-empty one.
C14_EmptyIdDisablesLabels ==
    [][/\ \A k \in 1..Len(labels') :
             labels'[k].id # "" /\ labels'[k].id \in {activationId, deactivationId}
       /\ evals' = evals => UNCHANGED <<runtime, output, totalConsumed, labels>>
       /\ evals' > evals =>
             LET in  == SubSeq(stream, rd + 1, Len(stream))
                 N   == Min(Len(in) - lookahead, cycle'.outElements)
                 ref == Evaluate(activeState, 0, N, samplesInState,
                                 currentSignalEnvelope, currentNoiseEnvelope)
             IN  /\ activeState' = (activeState # ref.broke)
                 /\ samplesInState' = ref.sis
                 /\ currentSignalEnvelope' = ref.sig
                 /\ currentNoiseEnvelope' = ref.noise
                 /\ totalConsumed' = totalConsumed + ref.i + 1
                 /\ output' = output \o
                       (IF activeState \/ forwardMode = "ALL"
                        THEN Buffer(in, ref.i + 1) ELSE <<>>)]_vars

\* C14 witness: with activationId empty and deactivationId not, a call entered
\* the active branch on the first sample after the activation, posted no
\* activation label, left ACTIVE and posted the deactivation label, the only
\* label of the run
C14_Witness ==
    /\ activationId = "" /\ deactivationId # ""
    /\ Worked /\ cycle.entryState /\ ~activeState
    /\ cycle.trace[1].sis = 1
    /\ labels = <<[id |-> deactivationId, pos |-> Len(output) - 1]>>

\* C15 without its last clause: every decision sample a call evaluates lies
\* within the elements the port holds (offset i + lookahead < elements)
C15_WithinTheBuffer ==
    Worked =>
        /\ Len(cycle.trace) >= 1
        /\ \A k \in 1..Len(cycle.trace) :
              /\ cycle.trace[k].i = k - 1
              /\ cycle.trace[k].i + lookahead < cycle.elements

C16_SamplesInState ==
    [][LET t == cycle'.trace
       IN  /\ evals' = evals => samplesInState' = samplesInState
           /\ evals' > evals =>
                /\ Len(t) = evals' - evals
                /\ \A k \in 1..Len(t) : t[k].sis = samplesInState + k
                /\ activeState' # activeState => samplesInState' = 0
                /\ activeState' = activeState =>
                      samplesInState' = samplesInState + Len(t)
                /\ samplesInState' = 0 <=> activeState' # activeState]_vars

\* C16 witness: a call that found the counter above 0 evaluated two samples
\* and made a transition at the second, which set the counter back to 0
C16_Witness ==
    /\ Worked /\ cycle.broke
    /\ Len(cycle.trace) = 2
    /\ cycle.trace[1].sis >= 2
    /\ LastEval.sis = cycle.trace[1].sis + 1
    /\ samplesInState = 0

\* C17: with both averaging gains strictly between 0 and 1, the signal
\* envelope and the noise envelope are at least 0 in every reachable state and
\* at every evaluated sample, whatever the signs of the input samples are.
C17_EnvelopesNonNegative ==
    (/\ 0 < signalGain /\ signalGain < GainDen
     /\ 0 < noiseGain /\ noiseGain < GainDen) =>
        /\ currentSignalEnvelope >= 0
        /\ currentNoiseEnvelope >= 0
        /\ \A k \in 1..Len(cycle.trace) :
              cycle.trace[k].sig >= 0 /\ cycle.trace[k].noise >= 0

\* C17 witness: after negative samples and zeros both envelopes are above 0,
\* the signal envelope fallen below the noise envelope
C17_Witness ==
    /\ 0 < signalGain /\ signalGain < GainDen
    /\ 0 < noiseGain /\ noiseGain < GainDen
    /\ \E k \in 1..Len(stream) : stream[k] < 0
    /\ evals >= 3
    /\ 0 < currentSignalEnvelope
    /\ currentSignalEnvelope < currentNoiseEnvelope

\* C18: with activationMaximum = M > 0 the detector remains ACTIVE for at
\* most M samples: no decision sample is evaluated in the ACTIVE state with
\* samplesInState above M.
C18_MaximumActiveDwell ==
    (activationMaximum > 0 /\ Worked /\ cycle.entryState) =>
        \A k \in 1..Len(cycle.trace) : cycle.trace[k].sis <= activationMaximum

\* the bound the active loop keeps: the sample that forces the exit is
\* evaluated with samplesInState = M + 1 and none with more
C18_MaximumPlusOne ==
    (activationMaximum > 0 /\ Worked /\ cycle.entryState) =>
        /\ \A k \in 1..Len(cycle.trace) : cycle.trace[k].sis <= activationMaximum + 1
        /\ activeState => samplesInState <= activationMaximum

\* the number of zero elements the stream begins with
LeadingZeros(s) ==
    CHOOSE z \in 0..Len(s) :
        /\ \A k \in 1..z : s[k] = 0
        /\ z = Len(s) \/ s[z + 1] # 0

\* zeros followed by a run of one non-zero amplitude
StepInput(s) ==
    \A k \in (LeadingZeros(s) + 1)..Len(s) : s[k] = s[LeadingZeros(s) + 1]

\* the parameters of the step scenario, with the 3.52 dB level (factor 1.5)
\* for its 3 dB, and an input of its shape
StepScenario ==
    /\ activationLeveldB = 352
    /\ signalAverage < noiseAverage
    /\ deactivationMinimum = 0
    /\ activationMaximum = 0 /\ deactivationMaximum = 0
    /\ StepInput(stream)

\* the first non-zero element of the stream that can be a decision sample:
\* element Z, or element `lookahead` when the run begins before it (the first
\* `lookahead` elements of a stream are never decision samples)
FirstDecidable(Z) == IF Z < lookahead THEN lookahead ELSE Z

C20_Activate ==
    [][/\ (cycle'.kind = "activated" /\ cycle' # cycle) =>
            /\ ~activeState' /\ samplesInState' = 0
            /\ currentSignalEnvelope' = 0 /\ currentNoiseEnvelope' = 0
            /\ UNCHANGED <<config, ports>>
       /\ cycle'.kind = "activated" => (~activeState' /\ samplesInState' = 0)
       /\ (cycle.kind = "activated" /\ evals' > evals) =>
            /\ ~cycle'.entryState
            /\ cycle'.trace[1].sis = 1
            /\ SinglePole(signalGain, oneMinusSignalGain, 0,
                          EvaluatedMagnitude(1), cycle'.trace[1].sig)
            /\ SinglePole(noiseGain, oneMinusNoiseGain, 0,
                          EvaluatedMagnitude(1), cycle'.trace[1].noise)]_vars

\* C20 witness: activate() has been called on a detector that was ACTIVE,
\* had evaluated samples and forwarded elements, with elements still buffered
C20_Witness ==
    /\ cycle.kind = "activated" /\ cycle.entryState
    /\ evals >= 2 /\ output # <<>>
    /\ Len(stream) - rd > lookahead
    /\ ~activeState /\ samplesInState = 0
    /\ currentSignalEnvelope = 0 /\ currentNoiseEnvelope = 0

\* C24: in every cycle that proceeds, whether or not it ends in a transition,
\* the number of input samples consumed equals the number of decision samples
\* evaluated in that cycle.
C24_ConsumedEqualsEvaluated ==
    Worked => cycle.consumed = Len(cycle.trace)

\* C24 in the cycles that end in a transition
C24_OnTransition ==
    (Worked /\ cycle.broke) => cycle.consumed = Len(cycle.trace)

\* what the code does in the cycles that end without one: one more element
\* consumed than decision samples evaluated
C24_OneMoreWithoutTransition ==
    (Worked /\ ~cycle.broke) =>
        /\ Len(cycle.trace) = cycle.N
        /\ cycle.consumed = cycle.N + 1

\* C25: a work() call never consumes more elements, nor forwards a longer
\* buffer, than the input port reports as available, for every lookahead and
\* whether or not a transition occurs in the cycle.
C25_WithinAvailable ==
    Worked =>
        /\ cycle.consumed <= cycle.elements
        /\ Len(cycle.forwarded) <= cycle.elements

\* C25 with a lookahead of at least 1
C25_WithLookahead ==
    (Worked /\ lookahead >= 1) =>
        /\ cycle.consumed <= cycle.elements
        /\ Len(cycle.forwarded) <= cycle.elements

\* C28: every label is posted by a work() call that also forwards a buffer,
\* at a position inside the elements that call forwards, in both forward
\* modes; a call that returns early (starved or work size 0) or forwards
\* nothing posts no label.
C28_LabelsInsideForwardedBuffer ==
    [][/\ NewLabels # <<>> =>
            /\ cycle'.kind = "worked"
            /\ cycle'.forwarded # <<>>
            /\ Len(output') = Len(output) + Len(cycle'.forwarded)
            /\ \A k \in 1..Len(NewLabels) :
                  /\ NewLabels[k].pos >= Len(output)
                  /\ NewLabels[k].pos < Len(output')
                  /\ cycle'.posted[k].index < Len(cycle'.forwarded)
       /\ (evals' = evals \/ output' = output) => labels' = labels]_vars

\* C28 witness: with forwardMode = ALL a call forwarded two elements and
\* posted the activation label on the first and the deactivation label on the
\* second
C28_Witness ==
    /\ ~dropInactiveSamples
    /\ Worked /\ Len(cycle.forwarded) = 2
    /\ cycle.posted = <<[id |-> activationId, index |-> 0],
                        [id |-> deactivationId, index |-> 1]>>
    /\ Len(labels) = 2 /\ labels[2].pos = Len(output) - 1

C30_ConsumesAtLeastOne ==
    [][cycle' # cycle =>
        /\ cycle'.kind = "worked" => (cycle'.consumed >= 1 /\ cycle'.N >= 1
                                      /\ cycle'.elements > lookahead)
        /\ cycle'.kind = "starved" => cycle'.elements <= lookahead
        /\ cycle'.kind \in {"starved", "idle"} =>
              UNCHANGED <<runtime, rd, totalConsumed, output, labels>>]_vars

\* C27: with both label ids non-empty and the configuration fixed, the
\* labels posted alternate activation, deactivation, activation, ..., starting
\* with an activation label, so the activation labels posted are as many as
\* the deactivation labels or one more; they are one more exactly while the
\* detector is ACTIVE and has evaluated a sample since it became so.
C27_LabelsAlternate ==
    (activationId # "" /\ deactivationId # "") =>
        LET a == Cardinality(WithId(labels, activationId))
            d == Cardinality(WithId(labels, deactivationId))
        IN  /\ \A k \in 1..Len(labels) :
                  labels[k].id = IF k % 2 = 1 THEN activationId ELSE deactivationId
            /\ a - d \in {0, 1}
            /\ a - d = 1 <=> (activeState /\ samplesInState > 0)
            /\ \A k \in 1..(Len(labels) - 1) : labels[k].pos <= labels[k + 1].pos

\* C27 witness: an activation label, a deactivation label and the detector
\* ACTIVE again, the next activation label not yet posted
C27_Witness ==
    /\ activationId # "" /\ deactivationId # ""
    /\ Len(labels) = 2
    /\ labels[1].id = activationId /\ labels[2].id = deactivationId
    /\ labels[1].pos < labels[2].pos
    /\ activeState /\ samplesInState = 0

\* C29: while the detector is ACTIVE with noiseEnvelope = 0 and
\* activationMaximum = 0, no step makes it INACTIVE and the noise envelope
\* stays 0, whatever the input is: the comparison signalEnvelope <
\* noiseEnvelope * deactivationFactor cannot hold.
C29_ZeroNoiseLatch ==
    [][(activeState /\ currentNoiseEnvelope = 0 /\ activationMaximum = 0) =>
          /\ activeState'
          /\ currentNoiseEnvelope' = 0
          /\ \A k \in 1..Len(cycle'.trace) : cycle' # cycle =>
                ~CrossedDown(cycle'.trace[k])]_vars

\* C29 witness: forced ACTIVE by deactivationMaximum on zeros with the noise
\* envelope 0, the detector has since evaluated a non-zero sample and then a
\* zero past the activation minimum, the signal envelope falling, and is
\* still ACTIVE
C29_Witness ==
    /\ activationMaximum = 0 /\ deactivationMaximum > 0
    /\ activeState /\ currentNoiseEnvelope = 0
    /\ Worked /\ cycle.entryState
    /\ Len(cycle.trace) = 2
    /\ cycle.trace[2].sig < cycle.trace[1].sig
    /\ cycle.trace[2].sis > activationMinimum

\* the runtime state after the stream elements k .. Len(stream) have each
\* been evaluated once as decision samples, in stream order, from state st,
\* by the tests of section 4.2
RECURSIVE EvaluatedOnce(_, _)
EvaluatedOnce(k, st) ==
    IF k > Len(stream) THEN st
    ELSE LET xn   == Abs(stream[k])
             e    == [sis   |-> st.sis + 1,
                      sig   |-> (signalGain * st.sig + oneMinusSignalGain * xn * Scale)
                                   \div GainDen,
                      noise |-> IF st.active THEN st.noise
                                ELSE (noiseGain * st.noise + oneMinusNoiseGain * xn * Scale)
                                        \div GainDen]
             trig == IF st.active THEN DeactivationTest(e) ELSE ActivationTest(e)
         IN  EvaluatedOnce(k + 1, [active |-> (st.active # trig),
                                   sis    |-> IF trig THEN 0 ELSE e.sis,
                                   sig    |-> e.sig,
                                   noise  |-> e.noise])

\* the runtime state as a record
RuntimeState ==
    [active |-> activeState, sis |-> samplesInState,
     sig |-> currentSignalEnvelope, noise |-> currentNoiseEnvelope]

\* the work() calls have taken the stream down to its lookahead tail
Processed == Len(stream) - rd <= lookahead

\* C26: for a fixed configuration and input stream the runtime state reached
\* when the stream has been processed does not depend on how the host split
\* it into cycles: it is the state reached by evaluating the decision samples
\* of the stream once each, in order, from the activated state.
C26_ChunkingIndependence ==
    Processed =>
        RuntimeState = EvaluatedOnce(lookahead + 1,
                          [active |-> FALSE, sis |-> 0, sig |-> 0, noise |-> 0])

\* C26 on the runs whose cycles evaluated every decision sample of the stream
\* and had no consume refused
C26_WhenEvaluatedOnce ==
    (Processed /\ refusals = 0 /\ evals = Len(stream) - lookahead) =>
        RuntimeState = EvaluatedOnce(lookahead + 1,
                          [active |-> FALSE, sis |-> 0, sig |-> 0, noise |-> 0])

\* a run of C26_WhenEvaluatedOnce: four elements processed in more than one
\* cycle, with a transition
C26_EvaluatedOnceReached ==
    /\ Processed /\ refusals = 0 /\ evals = Len(stream) - lookahead
    /\ Len(stream) = 4 /\ lookahead = 0
    /\ Len(labels) >= 1
    /\ Worked /\ Len(cycle.trace) < evals

\* C21: setForwardMode with a string that is neither "ALL" nor "ACTIVE" throws
\* the invalid-argument exception and changes nothing: the mode getForwardMode
\* reports, the drop policy work() uses, the rest of the configuration, the
\* runtime state and the ports are what they were before the call; so the mode
\* reported is always one of the two and always agrees with the drop policy.
C21_InvalidModeMutatesNothing ==
    [][/\ \A mode \in SetterModes \ {"ALL", "ACTIVE"} :
              SetForwardMode(mode) =>
                  /\ cycle'.kind = "InvalidArgumentException"
                  /\ forwardMode' = forwardMode
                  /\ dropInactiveSamples' = dropInactiveSamples
       /\ (cycle'.kind = "InvalidArgumentException" /\ cycle' # cycle) =>
              UNCHANGED <<config, runtime, ports, evals, refusals>>
       /\ forwardMode' \in {"ALL", "ACTIVE"}
       /\ dropInactiveSamples' <=> (forwardMode' = "ACTIVE")]_vars

\* setForwardMode has thrown in the ACTIVE state, after the mode had been set
\* to "ALL" and a label posted
C21_Witness ==
    /\ cycle.kind = "InvalidArgumentException"
    /\ forwardMode = "ALL" /\ ~dropInactiveSamples
    /\ activeState /\ currentSignalEnvelope > 0
    /\ Len(labels) >= 1 /\ Len(output) >= 1

\* a call of a setter with the value its parameter has
SetCurrentValue ==
    \/ SetForwardMode(forwardMode)
    \/ SetActivationLevel(activationLeveldB)
    \/ SetActivationMinimum(activationMinimum)
    \/ SetActivationMaximum(activationMaximum)
    \/ SetDeactivationLevel(deactivationLeveldB)
    \/ SetDeactivationMinimum(deactivationMinimum)
    \/ SetDeactivationMaximum(deactivationMaximum)
    \/ SetSignalAverage(signalAverage)
    \/ SetNoiseAverage(noiseAverage)
    \/ SetLookahead(lookahead)
    \/ SetActivationId(activationId)
    \/ SetDeactivationId(deactivationId)

\* the factors and gains are the ones the setters derive from the parameters
DerivedFromParameters ==
    /\ activationFactor = Pow10Level(activationLeveldB)
    /\ deactivationFactor = Pow10Level(deactivationLeveldB)
    /\ signalGain = ExpGain(signalAverage)
    /\ oneMinusSignalGain = GainDen - ExpGain(signalAverage)
    /\ noiseGain = ExpGain(noiseAverage)
    /\ oneMinusNoiseGain = GainDen - ExpGain(noiseAverage)

\* C22: a setter called with the value its parameter has, between two work()
\* calls, leaves the state, samplesInState, both envelopes, every parameter and
\* every derived gain and factor as they were, posts no label and produces
\* nothing: the state after the call is the state before it, so what follows
\* is what follows without the call.
C22_SetterIdempotence ==
    [][/\ SetCurrentValue =>
              /\ UNCHANGED <<config, runtime, ports, evals, refusals>>
              /\ labels' = labels /\ output' = output
              /\ cycle' = cycle
       /\ DerivedFromParameters']_vars

\* a point between two work() calls at which the setters are called: the
\* detector ACTIVE with a dwell count, both envelopes above zero, a label
\* posted and input left to process
C22_Witness ==
    /\ activeState /\ samplesInState >= 1
    /\ currentSignalEnvelope > 0 /\ currentNoiseEnvelope > 0
    /\ Len(labels) >= 1
    /\ rd < Len(stream)
    /\ DerivedFromParameters
    /\ ENABLED SetCurrentValue

\* x[1] + ... + x[n]
RECURSIVE SumTo(_, _)
SumTo(x, n) == IF n = 0 THEN 0 ELSE SumTo(x, n - 1) + x[n]

\* the feedback topology is inactive: the feeder has sent its buffer, nothing
\* is in flight and work() has no element to work with
FeedbackInactive ==
    /\ fed = Len(feederBuffer)
    /\ toInput1 = <<>> /\ toCollector = <<>>
    /\ Min(Len(in0), Len(in1)) = 0

\* C23: with ADD, input 1 preloaded with one zero and fed from output 0, the
\* n-th element the collector receives is the sum of the first n elements the
\* feeder was loaded with, and when the topology has become inactive the
\* collector holds as many elements as the feeder was loaded with.
C23_FeedbackAccumulator ==
    /\ Len(collector) <= Len(feederBuffer)
    /\ \A n \in 1..Len(collector) : collector[n] = SumTo(feederBuffer, n)
    /\ FeedbackInactive => Len(collector) = Len(feederBuffer)

\* the topology has run to inactivity on a buffer of MaxFeed elements that
\* starts with two non-zero elements
C23_Witness ==
    /\ FeedbackInactive
    /\ Len(feederBuffer) = MaxFeed
    /\ feederBuffer[1] # 0 /\ feederBuffer[2] # 0
    /\ Len(collector) = MaxFeed
    /\ collector[MaxFeed] = SumTo(feederBuffer, MaxFeed)

====
